---- MODULE Spec2Model ----
(***************************************************************************)
(* A model of PoliCast: the retrying AI request wrapper (retryOperation),  *)
(* the news list of the Discover view (handleFetchNews), the saved project *)
(* collection with its localStorage copy (handleProjectSave,               *)
(* deleteProject, handleGlobalImport, the sync effect), the image search   *)
(* (searchRelatedImages), and the App's navigation with the DetailView     *)
(* (handleGenerate, handleLocalSave).                                      *)
(*                                                                         *)
(* Each part has its specification: RetrySpec / RetryLiveSpec, NewsSpec,   *)
(* ProjectSpec, ImagesSpec, and for the App AsyncSpec (fetching and        *)
(* generating), SessionSpec (detail views and library) and LibrarySpec     *)
(* (an imported library).  A specification leaves the variables of the     *)
(* parts it does not use at their initial values.                          *)
(***************************************************************************)
EXTENDS Integers, Sequences, FiniteSets, Bags

VARIABLES
    \* ---- retryOperation (one call of the wrapper) ----
    retries,        \* parameter `retries`
    baseDelay,      \* parameter `baseDelay`
    i,              \* the loop variable
    rpc,            \* where the call stands: loop / await / wait / returned / thrown
    calls,          \* how often operation() has been invoked
    waits,          \* the delays handed to setTimeout, in order
    attempts,       \* how each invocation of operation() settled, in order
    outcome,        \* how the wrapper itself settled
    \* ---- App: the news list ----
    news,           \* useState news
    loadingNews,    \* useState loadingNews
    errorMsg,       \* useState errorMsg
    fetchPc,        \* handleFetchNews: idle / await (fetchPoliticalNews in flight)
    lastFetch,      \* the batch the last settled fetch returned, and how many entries it added
    \* ---- App: the saved projects ----
    savedProjects,  \* useState savedProjects
    storage,        \* localStorage 'policast_saved': <<>> (no item) or <<text>>
    syncPending,    \* the sync effect is scheduled and has not run yet
    lastOp,         \* the last handler that ran on the collection, with its input
    \* ---- searchRelatedImages (one call) ----
    chunks,         \* groundingChunks of the response: <<>> (undefined) or <<list>>
    images,         \* the list the call returned
    spc,            \* where the call stands: idle / await / returned
    searchFailed,   \* the awaited request threw
    \* ---- App: navigation; DetailView: its state and its generations ----
    now,            \* the last value Date.now() returned
    view,           \* useState view
    selectedItem,   \* useState selectedItem: <<>> (null) or <<item>>
    selectedSavedProject,   \* useState selectedSavedProject: <<>> or <<project>>
    loading,        \* DetailView useState loading
    content,        \* DetailView useState content: <<>> (null) or <<generated>>
    groundingImages,    \* DetailView useState groundingImages
    detailError,    \* DetailView useState error
    gens,           \* the calls of handleGenerate that have not returned yet (a bag)
    sessionIds      \* the ids the mounted DetailView has passed to onSave

retryVars == <<retries, baseDelay, i, rpc, calls, waits, attempts, outcome>>
newsVars == <<news, loadingNews, errorMsg, fetchPc, lastFetch>>
projectVars == <<savedProjects, storage, syncPending, lastOp>>
imageVars == <<chunks, images, spc, searchFailed>>
navVars == <<view, selectedItem, selectedSavedProject>>
detailVars == <<loading, content, groundingImages, detailError>>
appVars == <<now, navVars, detailVars, gens, sessionIds>>
vars == <<retryVars, newsVars, projectVars, imageVars, appVars>>

(***************************************************************************)
(* Errors.  An error object is modelled by the three things the code reads *)
(* of it: message (<<>> when the error has none, else <<m>> with m the     *)
(* message as a sequence of words), status and response.status (0 when     *)
(* absent).  String.includes is a search for a contiguous run of words.    *)
(***************************************************************************)
Includes(message, needle) ==
    \E k \in 1..(Len(message) - Len(needle) + 1) :
        SubSeq(message, k, k + Len(needle) - 1) = needle

\* error.message?.includes(needle): false when there is no message
MessageIncludes(error, needle) ==
    /\ error.message # <<>>
    /\ Includes(error.message[1], needle)

Err(message, status, responseStatus) ==
    [message |-> message, status |-> status, responseStatus |-> responseStatus]

\* new Error("Max retries exceeded")
MaxRetriesError == Err(<< <<"Max", "retries", "exceeded">> >>, 0, 0)

\* The errors an AI call is let fail with.
Errors ==
    { Err(<< <<"Network", "error">> >>, 0, 0),
      Err(<< <<"Error", "429", "quota">> >>, 0, 0),
      Err(<< <<"Too", "Many", "Requests">> >>, 0, 0),
      Err(<< <<"Too", "Many", "Redirects">> >>, 500, 500),
      Err(<<>>, 429, 0),
      Err(<<>>, 500, 429),
      Err(<<>>, 0, 0) }

\* The values an AI call is let resolve with.
Results == {"r1", "r2"}

NoError == Err(<<>>, 0, 0)
Ok(res) == [kind |-> "ok", res |-> res, err |-> NoError]
Failed(err) == [kind |-> "err", res |-> "", err |-> err]
Unsettled == [kind |-> "none", res |-> "", err |-> NoError]

(***************************************************************************)
(* retryOperation                                                          *)
(***************************************************************************)
MaxRetries == 3
DefaultRetries == 3
DefaultBaseDelay == 2000
JitterRange == 1000

\* baseDelay values the wrapper is called with: the default and a short one
BaseDelays == {DefaultBaseDelay, DefaultBaseDelay \div 4}

\* Math.random() * 1000: the ends and the middle of [0, 1000)
Jitters == {0, JitterRange \div 2, JitterRange - 1}

RECURSIVE Pow2(_)
Pow2(n) == IF n = 0 THEN 1 ELSE 2 * Pow2(n - 1)

IsRateLimit(error) ==
    \/ MessageIncludes(error, <<"429">>)
    \/ MessageIncludes(error, <<"Too", "Many", "Requests">>)
    \/ error.status = 429
    \/ error.responseStatus = 429

\* variant: a loop test that is off by one
LoopContinuesInclusive(idx, n) == idx <= n

\* for (...; i < retries; ...)
LoopContinues(idx, n) == idx < n

\* variant: retries whatever the error is
ShouldRetryAnyError(error, idx, n) == idx < n - 1

\* variant: retries a rate-limited attempt even when it was the last one
ShouldRetryWhileRateLimited(error, idx, n) == IsRateLimit(error)

\* variant: never retries
ShouldRetryNever(error, idx, n) == FALSE

\* if (isRateLimit && i < retries - 1)
ShouldRetry(error, idx, n) == IsRateLimit(error) /\ idx < n - 1

\* variant: the exponent counts attempts from 1
BackoffDelayOneBased(base, idx, jitter) == base * Pow2(idx + 1) + jitter

\* baseDelay * Math.pow(2, i) + (Math.random() * 1000)
BackoffDelay(base, idx, jitter) == base * Pow2(idx) + jitter

RetryIdle ==
    /\ retries = DefaultRetries
    /\ baseDelay = DefaultBaseDelay
    /\ i = 0
    /\ rpc = "idle"
    /\ calls = 0
    /\ waits = <<>>
    /\ attempts = <<>>
    /\ outcome = Unsettled

\* retryOperation(operation, retries, baseDelay) has been called
RetryInit ==
    /\ retries \in 0..MaxRetries
    /\ baseDelay \in BaseDelays
    /\ i = 0
    /\ rpc = "loop"
    /\ calls = 0
    /\ waits = <<>>
    /\ attempts = <<>>
    /\ outcome = Unsettled

\* the loop test holds: operation() is invoked and awaited
RetryInvoke ==
    /\ rpc = "loop"
    /\ LoopContinues(i, retries)
    /\ calls' = calls + 1
    /\ rpc' = "await"
    /\ UNCHANGED <<retries, baseDelay, i, waits, attempts, outcome>>
    /\ UNCHANGED <<newsVars, projectVars, imageVars, appVars>>

\* the loop test fails: throw new Error("Max retries exceeded")
RetryExhausted ==
    /\ rpc = "loop"
    /\ ~LoopContinues(i, retries)
    /\ rpc' = "thrown"
    /\ outcome' = Failed(MaxRetriesError)
    /\ UNCHANGED <<retries, baseDelay, i, calls, waits, attempts>>
    /\ UNCHANGED <<newsVars, projectVars, imageVars, appVars>>

\* operation() resolves: return await operation()
OperationResolves ==
    /\ rpc = "await"
    /\ \E res \in Results :
        /\ attempts' = Append(attempts, Ok(res))
        /\ outcome' = Ok(res)
    /\ rpc' = "returned"
    /\ UNCHANGED <<retries, baseDelay, i, calls, waits>>
    /\ UNCHANGED <<newsVars, projectVars, imageVars, appVars>>

\* operation() rejects: the catch block
OperationRejects ==
    /\ rpc = "await"
    /\ \E error \in Errors :
        /\ attempts' = Append(attempts, Failed(error))
        /\ IF ShouldRetry(error, i, retries)
           THEN /\ \E jitter \in Jitters :
                    waits' = Append(waits, BackoffDelay(baseDelay, i, jitter))
                /\ rpc' = "wait"
                /\ UNCHANGED outcome
           ELSE /\ rpc' = "thrown"
                /\ outcome' = Failed(error)
                /\ UNCHANGED waits
    /\ UNCHANGED <<retries, baseDelay, i, calls>>
    /\ UNCHANGED <<newsVars, projectVars, imageVars, appVars>>

\* the timer fires: continue, i++
RetryTimerFires ==
    /\ rpc = "wait"
    /\ i' = i + 1
    /\ rpc' = "loop"
    /\ UNCHANGED <<retries, baseDelay, calls, waits, attempts, outcome>>
    /\ UNCHANGED <<newsVars, projectVars, imageVars, appVars>>

(***************************************************************************)
(* The news list.  A NewsItem is modelled by its title and its snippet     *)
(* (the id fetchPoliticalNews adds is read by no handler).                 *)
(***************************************************************************)
MaxBatch == 2

Titles == {"t1", "t2"}
Snippets == {"s1", "s2"}
NewsItems == [title : Titles, snippet : Snippets]

\* The lists fetchPoliticalNews can resolve with
Batches == UNION {[1..n -> NewsItems] : n \in 0..MaxBatch}

NullMsg == ""
BusyMsg == "High traffic detected. The AI is busy. Please wait a minute and try again."
FailedMsg == "Failed to load news. Please check your internet connection."

\* new Set(prevNews.map(n => n.title))
ExistingTitles(prevNews) == {prevNews[k].title : k \in 1..Len(prevNews)}

\* items.filter(item => !existingTitles.has(item.title))
UniqueNewItems(prevNews, items) ==
    SelectSeq(items, LAMBDA item : item.title \notin ExistingTitles(prevNews))

\* variant: the new entries go behind the previous list
MergeNewsAppend(prevNews, items) == prevNews \o UniqueNewItems(prevNews, items)

\* the updater handed to setNews: [...uniqueNewItems, ...prevNews]
MergeNews(prevNews, items) == UniqueNewItems(prevNews, items) \o prevNews

\* variant: only a rate limit sets a message
FetchErrorMessageRateLimitOnly(error) ==
    IF \/ MessageIncludes(error, <<"429">>)
       \/ MessageIncludes(error, <<"Too", "Many", "Requests">>)
    THEN BusyMsg
    ELSE NullMsg

\* the catch block of handleFetchNews
FetchErrorMessage(error) ==
    IF \/ MessageIncludes(error, <<"429">>)
       \/ MessageIncludes(error, <<"Too", "Many", "Requests">>)
    THEN BusyMsg
    ELSE FailedMsg

NoFetch == [kind |-> "none", batch |-> <<>>, added |-> 0]

NewsIdle ==
    /\ news = <<>>
    /\ loadingNews = FALSE
    /\ errorMsg = NullMsg
    /\ fetchPc = "idle"
    /\ lastFetch = NoFetch

\* The App after its first render and the mount effect, which calls
\* handleFetchNews (view is DISCOVER and news is empty at mount).
NewsInit ==
    /\ news = <<>>
    /\ loadingNews = TRUE
    /\ errorMsg = NullMsg
    /\ fetchPc = "await"
    /\ lastFetch = NoFetch

\* handleFetchNews up to its await.  Its buttons are in the Discover list;
\* the "Load More News" button is disabled while loadingNews; the "Try Again"
\* button is rendered while errorMsg is set.
FetchStart ==
    /\ view = "DISCOVER"
    /\ selectedItem = <<>>
    /\ fetchPc = "idle"
    /\ (~loadingNews \/ errorMsg # NullMsg)
    /\ loadingNews' = TRUE
    /\ errorMsg' = NullMsg
    /\ fetchPc' = "await"
    /\ UNCHANGED <<news, lastFetch>>
    /\ UNCHANGED <<retryVars, projectVars, imageVars, appVars>>

\* fetchPoliticalNews resolves with items: setNews, then finally
FetchResolvesWith(items) ==
    /\ fetchPc = "await"
    /\ news' = MergeNews(news, items)
    /\ lastFetch' = [kind |-> "ok", batch |-> items,
                     added |-> Len(UniqueNewItems(news, items))]
    /\ loadingNews' = FALSE
    /\ fetchPc' = "idle"
    /\ UNCHANGED errorMsg
    /\ UNCHANGED <<retryVars, projectVars, imageVars, appVars>>

FetchResolves == \E items \in Batches : FetchResolvesWith(items)

MaxLiveBatch == 1

\* The lists fetchPoliticalNews resolves with in the sessions checked for
\* liveness
LiveBatches == UNION {[1..n -> NewsItems] : n \in 0..MaxLiveBatch}

FetchResolvesShort == \E items \in LiveBatches : FetchResolvesWith(items)

\* fetchPoliticalNews rejects: the catch block, then finally
FetchRejects ==
    /\ fetchPc = "await"
    /\ \E error \in Errors :
        errorMsg' = FetchErrorMessage(error)
    /\ lastFetch' = [kind |-> "err", batch |-> <<>>, added |-> 0]
    /\ loadingNews' = FALSE
    /\ fetchPc' = "idle"
    /\ UNCHANGED news
    /\ UNCHANGED <<retryVars, projectVars, imageVars, appVars>>

(***************************************************************************)
(* The saved projects.  A SavedProject is modelled by its id and a body    *)
(* standing for its other fields (newsItem, generatedContent, savedAt,     *)
(* groundingImages).  A JSON text is a sequence of tokens.                 *)
(***************************************************************************)
MaxFileLen == 2
MaxInit == 2

ProjectIds == {"p1", "p2"}
Bodies == {"v1", "v2"}
Projects == [id : ProjectIds, body : Bodies]
NoProject == [id |-> "", body |-> ""]

Ids(projects) == {projects[k].id : k \in 1..Len(projects)}
UniqueIds(projects) ==
    \A a, b \in 1..Len(projects) : projects[a].id = projects[b].id => a = b

Tok(t, p) == [t |-> t, p |-> p]
LB == Tok("[", NoProject)
RB == Tok("]", NoProject)

\* variant: the last entry is left out
JSONStringifyDropLast(projects) ==
    <<LB>> \o [k \in 1..(Len(projects) - 1) |-> Tok("object", projects[k])] \o <<RB>>

\* JSON.stringify of an array of projects
JSONStringify(projects) ==
    <<LB>> \o [k \in 1..Len(projects) |-> Tok("object", projects[k])] \o <<RB>>

\* JSON.parse: the value, or a SyntaxError
JSONParse(text) ==
    IF /\ Len(text) >= 2
       /\ text[1] = LB
       /\ text[Len(text)] = RB
       /\ \A k \in 2..(Len(text) - 1) : text[k].t = "object"
    THEN [ok |-> TRUE, type |-> "array",
          elems |-> [k \in 1..(Len(text) - 2) |-> text[k + 1].p]]
    ELSE IF Len(text) = 1 /\ text[1].t \in {"object", "null", "number"}
    THEN [ok |-> TRUE, type |-> text[1].t, elems |-> <<>>]
    ELSE [ok |-> FALSE, type |-> "SyntaxError", elems |-> <<>>]

\* variant: no Array.isArray test
IsArrayAlways(value) == TRUE

\* Array.isArray(json)
IsArray(value) == value.type = "array"

\* The projects a file is let hold: both ids, one of them with both bodies
FileProjects == Projects \ {[id |-> "p2", body |-> "v1"]}

\* The files a user imports: arrays of projects (an id may repeat), ...
ArrayFiles ==
    {JSONStringify(c) : c \in UNION {[1..n -> FileProjects] : n \in 0..MaxFileLen}}

\* ... JSON values that are no array, and texts that do not parse
OtherFiles ==
    { <<Tok("null", NoProject)>>,
      <<Tok("number", NoProject)>>,
      <<Tok("object", [id |-> "p1", body |-> "v2"])>>,
      <<>>,
      <<LB, Tok("object", [id |-> "p2", body |-> "v1"])>> }

Files == ArrayFiles \cup OtherFiles

\* variant: the project is always added in front
SaveProjectPrepend(prev, project) == <<project>> \o prev

\* the updater of handleProjectSave
SaveProject(prev, project) ==
    IF \E k \in 1..Len(prev) : prev[k].id = project.id
    THEN LET exists == CHOOSE k \in 1..Len(prev) :
                 /\ prev[k].id = project.id
                 /\ \A m \in 1..(k - 1) : prev[m].id # project.id
         IN [prev EXCEPT ![exists] = project]
    ELSE <<project>> \o prev

\* variant: only the first entry with the id is removed
RemoveProjectFirst(prev, id) ==
    IF \E k \in 1..Len(prev) : prev[k].id = id
    THEN LET first == CHOOSE k \in 1..Len(prev) :
                 /\ prev[k].id = id
                 /\ \A m \in 1..(k - 1) : prev[m].id # id
         IN SubSeq(prev, 1, first - 1) \o SubSeq(prev, first + 1, Len(prev))
    ELSE prev

\* the updater of deleteProject: prev.filter(p => p.id !== id)
RemoveProject(prev, id) == SelectSeq(prev, LAMBDA p : p.id # id)

\* json.filter(j => !prev.some(p => p.id === j.id))
NewItems(prev, json) == SelectSeq(json, LAMBDA j : j.id \notin Ids(prev))

\* variant: an imported project replaces the one with its id
ImportMergeOverwrite(prev, json) ==
    json \o SelectSeq(prev, LAMBDA p : p.id \notin Ids(json))

\* the updater of handleGlobalImport: [...newItems, ...prev]
ImportMerge(prev, json) == NewItems(prev, json) \o prev

\* who called handleProjectSave: the handler (via), and for handleGenerate
\* whether its image search failed, whether its DetailView is still mounted
\* (live) and whether the project it was started for was deleted meanwhile
NoCaller == [via |-> "", imagesFailed |-> FALSE, live |-> FALSE, deleted |-> FALSE]

NoOp == [op |-> "none", text |-> <<>>, project |-> NoProject, confirmed |-> FALSE,
         added |-> 0, caller |-> NoCaller]

ProjectIdle ==
    /\ savedProjects = <<>>
    /\ storage = <<>>
    /\ syncPending = FALSE
    /\ lastOp = NoOp

\* The collections an earlier session left in localStorage
InitCollections ==
    {c \in UNION {[1..n -> Projects] : n \in 0..MaxInit} : UniqueIds(c)}

\* useState(() => { local ? JSON.parse(local) : [] }); the sync effect is
\* scheduled by the first render.
ProjectInit ==
    /\ storage \in {<<>>} \cup {<<JSONStringify(c)>> : c \in InitCollections}
    /\ savedProjects =
           IF storage = <<>> THEN <<>> ELSE JSONParse(storage[1]).elems
    /\ syncPending = TRUE
    /\ lastOp = NoOp

\* variant: the effect writes the first project only
SyncStorageFirstOnly ==
    /\ syncPending
    /\ storage' = <<JSONStringify(IF savedProjects = <<>> THEN <<>>
                                   ELSE <<savedProjects[1]>>)>>
    /\ syncPending' = FALSE
    /\ UNCHANGED <<savedProjects, lastOp>>
    /\ UNCHANGED <<retryVars, newsVars, imageVars, appVars>>

\* useEffect(() => localStorage.setItem(...), [savedProjects])
SyncStorage ==
    /\ syncPending
    /\ storage' = <<JSONStringify(savedProjects)>>
    /\ syncPending' = FALSE
    /\ UNCHANGED <<savedProjects, lastOp>>
    /\ UNCHANGED <<retryVars, newsVars, imageVars, appVars>>

\* handleProjectSave(project).  React runs a scheduled effect before it
\* applies the next update, so the handlers wait for the sync effect.
HandleProjectSaveBy(project, caller) ==
    /\ ~syncPending
    /\ savedProjects' = SaveProject(savedProjects, project)
    /\ lastOp' = [NoOp EXCEPT !.op = "save", !.project = project,
                    !.added = Len(SaveProject(savedProjects, project))
                                - Len(savedProjects),
                    !.caller = caller]
    /\ syncPending' = TRUE
    /\ UNCHANGED storage

HandleProjectSave ==
    /\ \E project \in Projects : HandleProjectSaveBy(project, NoCaller)
    /\ UNCHANGED <<retryVars, newsVars, imageVars, appVars>>

\* deleteProject(id, e) on the card of a saved project
DeleteProjectAt(k, confirmed) ==
    /\ ~syncPending
    /\ lastOp' = [NoOp EXCEPT !.op = "delete", !.project = savedProjects[k],
                    !.confirmed = confirmed,
                    !.added = IF confirmed
                              THEN Len(RemoveProject(savedProjects, savedProjects[k].id))
                                     - Len(savedProjects)
                              ELSE 0]
    /\ IF confirmed
       THEN /\ savedProjects' = RemoveProject(savedProjects, savedProjects[k].id)
            /\ syncPending' = TRUE
       ELSE UNCHANGED <<savedProjects, syncPending>>
    /\ UNCHANGED storage

DeleteProject ==
    /\ \E k \in 1..Len(savedProjects), confirmed \in BOOLEAN :
           DeleteProjectAt(k, confirmed)
    /\ UNCHANGED <<retryVars, newsVars, imageVars, appVars>>

\* reader.onload of handleGlobalImport, with the text of the chosen file
\* (handleGlobalImport itself only starts the reader)
ImportOnloadOf(text) ==
    /\ ~syncPending
    /\ LET parsed == JSONParse(text) IN
        IF parsed.ok /\ IsArray(parsed)
        THEN /\ savedProjects' = ImportMerge(savedProjects, parsed.elems)
             /\ syncPending' = TRUE
             /\ lastOp' = [NoOp EXCEPT !.op = "import", !.text = text,
                             !.added = Len(NewItems(savedProjects, parsed.elems))]
        ELSE /\ lastOp' = [NoOp EXCEPT !.op = "import", !.text = text]
             /\ UNCHANGED <<savedProjects, syncPending>>
    /\ UNCHANGED storage

ImportOnload ==
    /\ \E text \in Files : ImportOnloadOf(text)
    /\ UNCHANGED <<retryVars, newsVars, imageVars, appVars>>

\* The page is loaded again: useState reads 'policast_saved', and the first
\* render schedules the sync effect.
Reload ==
    /\ ~syncPending
    /\ savedProjects' =
           IF storage = <<>> THEN <<>> ELSE JSONParse(storage[1]).elems
    /\ syncPending' = TRUE
    /\ lastOp' = [NoOp EXCEPT !.op = "reload"]
    /\ UNCHANGED storage
    /\ UNCHANGED <<retryVars, newsVars, imageVars, appVars>>

(***************************************************************************)
(* searchRelatedImages: filter, dedupe and cap of the grounding chunks.    *)
(* A uri is a sequence of pieces, <<"n1", ".", "jpg">> for "n1.jpg"; the   *)
(* empty sequence is a missing (or empty) uri, and a chunk without `web`   *)
(* is a chunk with neither uri nor title.  The title "" is a missing one.  *)
(***************************************************************************)
MaxPrefix == 2          \* arbitrary chunks in front of the distinct ones
MaxFresh == 11          \* chunks with pairwise distinct image uris
ImageCap == 10          \* uniqueImages.slice(0, 10)

ImageExts == {"jpeg", "jpg", "gif", "png", "webp"}

\* uri.match(/\.(jpeg|jpg|gif|png|webp)$/)
MatchesImageExt(uri) ==
    /\ Len(uri) >= 2
    /\ uri[Len(uri) - 1] = "."
    /\ uri[Len(uri)] \in ImageExts

Name(k) == <<"n1", "n2", "n3", "n4", "n5", "n6", "n7", "n8", "n9", "n10",
             "n11", "n12", "n13">>[k]

Chunk(uri, title) == [uri |-> uri, title |-> title]

\* the k-th of the chunks with pairwise distinct uris
FreshChunk(k) == Chunk(<<Name(k), ".", "jpg">>, "t1")

\* chunks that repeat a uri, lack a uri, lack a title, or are no image
SmallChunks ==
    { Chunk(uri, title) :
        uri \in {<<>>, <<"n1", ".", "jpg">>, <<"n2", ".", "jpg", "x">>},
        title \in {"", "t2"} }

RECURSIVE SeqsUpTo(_, _)
SeqsUpTo(S, n) ==
    IF n = 0 THEN {<<>>}
    ELSE LET shorter == SeqsUpTo(S, n - 1)
         IN shorter \cup {Append(q, x) : q \in {r \in shorter : Len(r) = n - 1}, x \in S}

ChunkLists ==
    { prefix \o [k \in 1..fresh |-> FreshChunk(k)] \o suffix :
        prefix \in SeqsUpTo(SmallChunks, MaxPrefix),
        fresh \in 0..MaxFresh,
        suffix \in SeqsUpTo(SmallChunks, 1) }

\* the test of the forEach body
Accepted(chunk) ==
    /\ chunk.uri # <<>>
    /\ (MatchesImageExt(chunk.uri) \/ chunk.title # "")

\* the object pushed for an accepted chunk
ImageOf(chunk) ==
    [url |-> chunk.uri,
     title |-> IF chunk.title # "" THEN chunk.title ELSE "Source Link",
     source |-> IF chunk.title # "" THEN chunk.title ELSE "Web Result"]

\* images after the forEach
Collected(list) ==
    LET accepted == SelectSeq(list, Accepted)
    IN [k \in 1..Len(accepted) |-> ImageOf(accepted[k])]

\* a.findIndex(v2 => v2.url === v.url)
FindIndexByUrl(a, url) ==
    CHOOSE k \in 1..Len(a) :
        /\ a[k].url = url
        /\ \A m \in 1..(k - 1) : a[m].url # url

\* variant: the entry is kept when no later entry has its url
IsLastByUrl(a, k) == \A m \in (k + 1)..Len(a) : a[m].url # a[k].url

\* the callback of images.filter
IsFirstByUrl(a, k) == FindIndexByUrl(a, a[k].url) = k

RECURSIVE FilterFrom(_, _)
\* Array.prototype.filter with that callback, from index k on
FilterFrom(a, k) ==
    IF k > Len(a) THEN <<>>
    ELSE (IF IsFirstByUrl(a, k) THEN <<a[k]>> ELSE <<>>) \o FilterFrom(a, k + 1)

\* images.filter((v,i,a) => a.findIndex(v2 => v2.url === v.url) === i)
UniqueImages(a) == FilterFrom(a, 1)

\* uniqueImages.slice(0, 10)
Slice(a, n) == SubSeq(a, 1, IF Len(a) < n THEN Len(a) ELSE n)

\* the value searchRelatedImages returns for a response
SearchResult(response) ==
    IF response = <<>> THEN <<>>
    ELSE Slice(UniqueImages(Collected(response[1])), ImageCap)

ImagesIdle ==
    /\ chunks = <<>>
    /\ images = <<>>
    /\ spc = "idle"
    /\ searchFailed = FALSE

\* the request is in flight; its response is one of the chunk lists or has
\* no grounding chunks
ImagesInit ==
    /\ chunks \in {<<>>} \cup {<<list>> : list \in ChunkLists}
    /\ images = <<>>
    /\ spc = "await"
    /\ searchFailed = FALSE

\* the awaited request resolved
SearchResolves ==
    /\ spc = "await"
    /\ images' = SearchResult(chunks)
    /\ spc' = "returned"
    /\ UNCHANGED <<chunks, searchFailed>>
    /\ UNCHANGED <<retryVars, newsVars, projectVars, appVars>>

\* the awaited request threw: the catch returns []
SearchRejects ==
    /\ spc = "await"
    /\ images' = <<>>
    /\ spc' = "returned"
    /\ searchFailed' = TRUE
    /\ UNCHANGED chunks
    /\ UNCHANGED <<retryVars, newsVars, projectVars, appVars>>

(***************************************************************************)
(* The App's navigation and the DetailView.  null is the empty sequence,   *)
(* a value v that may be null is <<v>>.                                    *)
(***************************************************************************)
MaxClock == 1           \* Date.now() returns 0..MaxClock
MaxJobs == 2            \* calls of handleGenerate that are in flight together

Null == <<>>

\* `proj-${Date.now()}`
ProjId(t) == <<"proj-0", "proj-1", "proj-2", "proj-3">>[t + 1]

\* the values Date.now() can return next: time does not run backwards
Times == {t \in {now, now + 1} : t <= MaxClock}

TheItem == [title |-> "t1", snippet |-> "s1"]

\* what fetchPoliticalNews resolves with in a session of the whole App
AppBatches == {<<>>, <<TheItem>>}

\* what generateContentKit resolves with: a kit without and one with image queries
Kits == {[text |-> "k1", imageQueries |-> q] : q \in {<<>>, <<"q1">>}}

\* what searchRelatedImages resolves with when its request succeeds
ImageLists == {<<>>, <<ImageOf(FreshChunk(1))>>}

GenFailedMsg == "Failed to generate content. Please try again."

\* the fields of a SavedProject other than id (savedAt is left out)
Body(newsItem, generatedContent, imgs) ==
    [newsItem |-> newsItem, generatedContent |-> generatedContent,
     groundingImages |-> imgs]

\* a project of an imported file whose generatedContent is null
ImportedProject == [id |-> "p1", body |-> Body(TheItem, Null, <<>>)]

AppFiles == {JSONStringify(<<ImportedProject>>)}

\* the App before any navigation, with no DetailView mounted
AppIdle ==
    /\ now = 0
    /\ view = "DISCOVER"
    /\ selectedItem = Null
    /\ selectedSavedProject = Null
    /\ loading = FALSE
    /\ content = Null
    /\ groundingImages = <<>>
    /\ detailError = NullMsg
    /\ gens = EmptyBag
    /\ sessionIds = {}

\* localStorage holds no 'policast_saved' item at the first render
EmptyLibraryInit ==
    /\ storage = <<>>
    /\ savedProjects = <<>>
    /\ syncPending = TRUE
    /\ lastOp = NoOp

\* {view === ViewState.DETAIL && selectedItem && <DetailView .../>}
DetailMounted == view = "DETAIL" /\ selectedItem # Null

\* the DetailView is removed: its handleGenerate calls run on, and their
\* setState calls no longer have an effect
Orphaned(jobs) ==
    [j \in {[x EXCEPT !.live = FALSE] : x \in BagToSet(jobs)} |->
        CopiesIn(j, jobs) + CopiesIn([j EXCEPT !.live = TRUE], jobs)]

\* nothing of a DetailView is left once it is unmounted
NoDetail ==
    /\ loading' = FALSE
    /\ content' = Null
    /\ groundingImages' = <<>>
    /\ detailError' = NullMsg
    /\ sessionIds' = {}
    /\ gens' = Orphaned(gens)

\* the useState initialisers of a DetailView mounted with existingProject
MountDetail(existingProject) ==
    /\ loading' = FALSE
    /\ content' = IF existingProject = Null THEN Null
                  ELSE existingProject[1].body.generatedContent
    /\ groundingImages' = IF existingProject = Null THEN <<>>
                          ELSE existingProject[1].body.groundingImages
    /\ detailError' = NullMsg
    /\ sessionIds' = {}
    /\ UNCHANGED gens

\* the logo and the Discover button of the navigation bar
GoDiscover ==
    /\ ~syncPending
    /\ view' = "DISCOVER"
    /\ selectedItem' = Null
    /\ selectedSavedProject' = Null
    /\ NoDetail
    /\ UNCHANGED now
    /\ UNCHANGED <<retryVars, newsVars, projectVars, imageVars>>

\* the Saved button of the navigation bar
GoSaved ==
    /\ ~syncPending
    /\ view' = "SAVED"
    /\ selectedItem' = Null
    /\ selectedSavedProject' = Null
    /\ NoDetail
    /\ UNCHANGED now
    /\ UNCHANGED <<retryVars, newsVars, projectVars, imageVars>>

\* "Go Discover News" of the empty library: only setView(DISCOVER)
GoDiscoverNews ==
    /\ ~syncPending
    /\ view = "SAVED"
    /\ selectedSavedProject = Null
    /\ savedProjects = <<>>
    /\ view' = "DISCOVER"
    /\ UNCHANGED <<selectedItem, selectedSavedProject, now, detailVars, gens,
                   sessionIds>>
    /\ UNCHANGED <<retryVars, newsVars, projectVars, imageVars>>

\* onClick of a NewsCard of the Discover list
SelectNews ==
    /\ ~syncPending
    /\ view = "DISCOVER"
    /\ selectedItem = Null
    /\ \E k \in 1..Len(news) : selectedItem' = <<news[k]>>
    /\ selectedSavedProject' = Null
    /\ view' = "DETAIL"
    /\ MountDetail(Null)
    /\ UNCHANGED now
    /\ UNCHANGED <<retryVars, newsVars, projectVars, imageVars>>

\* onClick of the card of a saved project
SelectSaved ==
    /\ ~syncPending
    /\ view = "SAVED"
    /\ selectedSavedProject = Null
    /\ \E k \in 1..Len(savedProjects) :
        /\ selectedSavedProject' = <<savedProjects[k]>>
        /\ selectedItem' = <<savedProjects[k].body.newsItem>>
        /\ MountDetail(<<savedProjects[k]>>)
    /\ view' = "DETAIL"
    /\ UNCHANGED now
    /\ UNCHANGED <<retryVars, newsVars, projectVars, imageVars>>

\* variant: Back always shows the Discover list
OnBackToDiscover ==
    /\ ~syncPending
    /\ DetailMounted
    /\ view' = "DISCOVER"
    /\ selectedItem' = Null
    /\ NoDetail
    /\ UNCHANGED <<selectedSavedProject, now>>
    /\ UNCHANGED <<retryVars, newsVars, projectVars, imageVars>>

\* onBack of the DetailView
OnBack ==
    /\ ~syncPending
    /\ DetailMounted
    /\ IF selectedSavedProject # Null
       THEN view' = "SAVED" /\ selectedSavedProject' = Null
       ELSE view' = "DISCOVER" /\ UNCHANGED selectedSavedProject
    /\ selectedItem' = Null
    /\ NoDetail
    /\ UNCHANGED now
    /\ UNCHANGED <<retryVars, newsVars, projectVars, imageVars>>

\* fetchPoliticalNews resolves in a session of the whole App
DiscoverFetchResolves == \E items \in AppBatches : FetchResolvesWith(items)

\* variant: the Generate button stays while a generation is loading
GenerateShownWhileLoading == content = Null

\* {!content && !loading && (... <button onClick={handleGenerate}> ...)}
GenerateShown == content = Null /\ ~loading

\* what the DetailView renders of its state: the Save and JSON buttons and
\* the kit under {content && ...}, the Generate button, the spinner under
\* {loading && ...}; no element of the view reads `error`
Rendered ==
    (IF content # Null THEN {"save", "kit"} ELSE {})
      \cup (IF GenerateShown THEN {"generate"} ELSE {})
      \cup (IF loading THEN {"spinner"} ELSE {})

\* the screens of <main> that are rendered: the Discover list, the Saved
\* list, the DetailView
Screens ==
    (IF view = "DISCOVER" /\ selectedItem = Null THEN {"discover"} ELSE {})
      \cup (IF view = "SAVED" /\ selectedSavedProject = Null THEN {"saved"} ELSE {})
      \cup (IF DetailMounted THEN {"detail"} ELSE {})

\* existingProject?.id
ExistingId == IF selectedSavedProject = Null THEN Null
              ELSE <<selectedSavedProject[1].id>>

\* a call of handleGenerate at its first await
NewJob ==
    [newsItem |-> selectedItem[1], existingId |-> ExistingId, stage |-> "kit",
     generated |-> Null, live |-> TRUE, deleted |-> FALSE]

\* handleGenerate up to `await generateContentKit(newsItem)`
HandleGenerate ==
    /\ ~syncPending
    /\ DetailMounted
    /\ GenerateShown
    /\ BagCardinality(gens) < MaxJobs
    /\ loading' = TRUE
    /\ detailError' = NullMsg
    /\ gens' = gens (+) SetToBag({NewJob})
    /\ UNCHANGED <<content, groundingImages, now, navVars, sessionIds>>
    /\ UNCHANGED <<retryVars, newsVars, projectVars, imageVars>>

\* id: existingProject?.id || `proj-${Date.now()}`
IdFor(existingId, t) == IF existingId # Null THEN existingId[1] ELSE ProjId(t)

\* the project handleGenerate builds
GeneratedProject(job, generated, imgs, t) ==
    [id |-> IdFor(job.existingId, t),
     body |-> Body(job.newsItem, <<generated>>, imgs)]

\* variant: handleGenerate does not call onSave
OnSaveSkipped(job, generated, imgs, failed, t) ==
    /\ ~syncPending
    /\ UNCHANGED <<projectVars, now, sessionIds>>

\* onSave(project) of handleGenerate
OnSaveGenerated(job, generated, imgs, failed, t) ==
    /\ HandleProjectSaveBy(GeneratedProject(job, generated, imgs, t),
                           [via |-> "handleGenerate", imagesFailed |-> failed,
                            live |-> job.live, deleted |-> job.deleted])
    /\ now' = IF job.existingId # Null THEN now ELSE t
    /\ sessionIds' = IF job.live
                     THEN sessionIds \cup {IdFor(job.existingId, t)}
                     ELSE sessionIds

\* handleGenerate from setContent to the end of finally, with the kit and
\* the images it holds: setContent, setGroundingImages, onSave(project),
\* setLoading(false).  The setters of an unmounted DetailView do nothing.
Complete(job, generated, imgs, failed) ==
    /\ \E t \in Times : OnSaveGenerated(job, generated, imgs, failed, t)
    /\ IF job.live
       THEN /\ content' = <<generated>>
            /\ groundingImages' = imgs
            /\ loading' = FALSE
       ELSE UNCHANGED <<content, groundingImages, loading>>
    /\ gens' = gens (-) SetToBag({job})
    /\ UNCHANGED <<detailError, navVars>>
    /\ UNCHANGED <<retryVars, newsVars, imageVars>>

\* generateContentKit resolves: with image queries the handler goes on to
\* `await searchRelatedImages(...)`, without it completes at once
KitResolves ==
    \E job \in BagToSet(gens), generated \in Kits :
        /\ job.stage = "kit"
        /\ IF generated.imageQueries # <<>>
           THEN /\ ~syncPending
                /\ gens' = (gens (-) SetToBag({job}))
                             (+) SetToBag({[job EXCEPT !.stage = "images",
                                                       !.generated = <<generated>>]})
                /\ UNCHANGED <<now, navVars, detailVars, sessionIds>>
                /\ UNCHANGED <<retryVars, newsVars, projectVars, imageVars>>
           ELSE Complete(job, generated, <<>>, FALSE)

\* generateContentKit rejects: catch, then finally
KitRejects ==
    /\ ~syncPending
    /\ \E job \in BagToSet(gens) :
        /\ job.stage = "kit"
        /\ IF job.live
           THEN detailError' = GenFailedMsg /\ loading' = FALSE
           ELSE UNCHANGED <<detailError, loading>>
        /\ gens' = gens (-) SetToBag({job})
    /\ UNCHANGED <<content, groundingImages, now, navVars, sessionIds>>
    /\ UNCHANGED <<retryVars, newsVars, projectVars, imageVars>>

\* searchRelatedImages resolves with the images of its response
ImagesResolve ==
    \E job \in BagToSet(gens), imgs \in ImageLists :
        /\ job.stage = "images"
        /\ Complete(job, job.generated[1], imgs, FALSE)

\* the request of searchRelatedImages fails: its catch returns []
ImagesFail ==
    \E job \in BagToSet(gens) :
        /\ job.stage = "images"
        /\ Complete(job, job.generated[1], <<>>, TRUE)

\* handleLocalSave; its button is rendered while content is set
HandleLocalSave ==
    /\ DetailMounted
    /\ content # Null
    /\ \E t \in Times :
        /\ HandleProjectSaveBy(
               [id |-> IdFor(ExistingId, t),
                body |-> Body(selectedItem[1], content, groundingImages)],
               [NoCaller EXCEPT !.via = "handleLocalSave", !.live = TRUE])
        /\ now' = IF ExistingId # Null THEN now ELSE t
        /\ sessionIds' = sessionIds \cup {IdFor(ExistingId, t)}
    /\ UNCHANGED <<navVars, detailVars, gens>>
    /\ UNCHANGED <<retryVars, newsVars, imageVars>>

\* the jobs started for the project with the id: it was deleted meanwhile
MarkDeleted(jobs, id) ==
    LET Mark(x) == IF x.existingId = <<id>> THEN [x EXCEPT !.deleted = TRUE] ELSE x
    IN [j \in {Mark(x) : x \in BagToSet(jobs)} |->
           IF j.existingId = <<id>>
           THEN CopiesIn(j, jobs) + CopiesIn([j EXCEPT !.deleted = FALSE], jobs)
           ELSE CopiesIn(j, jobs)]

\* the delete button on a card of the library (Saved list)
DeleteFromLibrary ==
    /\ view = "SAVED"
    /\ selectedSavedProject = Null
    /\ \E k \in 1..Len(savedProjects), confirmed \in BOOLEAN :
        /\ DeleteProjectAt(k, confirmed)
        /\ gens' = IF confirmed THEN MarkDeleted(gens, savedProjects[k].id)
                   ELSE gens
    /\ UNCHANGED <<now, navVars, detailVars, sessionIds>>
    /\ UNCHANGED <<retryVars, newsVars, imageVars>>

\* "Import JSON" of the library: reader.onload with the text of the file
ImportIntoLibrary ==
    /\ view = "SAVED"
    /\ selectedSavedProject = Null
    /\ \E text \in AppFiles : ImportOnloadOf(text)
    /\ UNCHANGED <<retryVars, newsVars, imageVars, appVars>>

\* The App after its first fetch resolved with an item
NewsLoaded ==
    /\ news = <<TheItem>>
    /\ loadingNews = FALSE
    /\ errorMsg = NullMsg
    /\ fetchPc = "idle"
    /\ lastFetch = [kind |-> "ok", batch |-> <<TheItem>>, added |-> 1]

(***************************************************************************)
(* Specifications                                                          *)
(***************************************************************************)
\* one call of retryOperation, for every retry count and base delay
RetrySpecInit == RetryInit /\ NewsIdle /\ ProjectIdle /\ ImagesIdle /\ AppIdle

RetryNext ==
    \/ RetryInvoke
    \/ RetryExhausted
    \/ OperationResolves
    \/ OperationRejects
    \/ RetryTimerFires

RetrySpec == RetrySpecInit /\ [][RetryNext]_vars

\* ... in which every invocation of the operation settles and the timer fires
RetryLiveSpec == RetrySpecInit /\ [][RetryNext]_vars /\ WF_vars(RetryNext)

\* a session of the Discover view
NewsSpecInit == RetryIdle /\ NewsInit /\ ProjectIdle /\ ImagesIdle /\ AppIdle

NewsNext ==
    \/ FetchStart
    \/ FetchResolves
    \/ FetchRejects

NewsSpec == NewsSpecInit /\ [][NewsNext]_vars

\* a session of the Discover view in which the awaited fetchPoliticalNews
\* settles: retryOperation returns or throws after at most `retries` requests
NewsLiveSpecInit == RetryIdle /\ NewsInit /\ ProjectIdle /\ ImagesIdle /\ AppIdle

NewsLiveNext ==
    \/ FetchStart
    \/ FetchResolvesShort
    \/ FetchRejects

NewsLiveSpec ==
    /\ NewsLiveSpecInit
    /\ [][NewsLiveNext]_vars
    /\ WF_vars(FetchResolvesShort \/ FetchRejects)

\* a session of the project library
ProjectSpecInit == RetryIdle /\ NewsIdle /\ ProjectInit /\ ImagesIdle /\ AppIdle

ProjectNext ==
    \/ SyncStorage
    \/ HandleProjectSave
    \/ DeleteProject
    \/ ImportOnload
    \/ Reload

ProjectSpec == ProjectSpecInit /\ [][ProjectNext]_vars

\* one call of searchRelatedImages, for every response
ImagesSpecInit == RetryIdle /\ NewsIdle /\ ProjectIdle /\ ImagesInit /\ AppIdle

ImagesNext ==
    \/ SearchResolves
    \/ SearchRejects

ImagesSpec == ImagesSpecInit /\ [][ImagesNext]_vars

\* fetching news, opening items of the Discover list, generating and
\* navigating, from the first render of the App
AsyncSpecInit == RetryIdle /\ NewsInit /\ EmptyLibraryInit /\ ImagesIdle /\ AppIdle

AsyncNext ==
    \/ SyncStorage
    \/ FetchStart
    \/ DiscoverFetchResolves
    \/ FetchRejects
    \/ GoDiscover
    \/ GoSaved
    \/ GoDiscoverNews
    \/ SelectNews
    \/ OnBack
    \/ HandleGenerate
    \/ KitResolves
    \/ KitRejects
    \/ ImagesResolve
    \/ ImagesFail

AsyncSpec == AsyncSpecInit /\ [][AsyncNext]_vars

\* the detail views and the library once the first fetch has brought an
\* item, in a session in which no file is imported
SessionSpecInit == RetryIdle /\ NewsLoaded /\ EmptyLibraryInit /\ ImagesIdle /\ AppIdle

SessionNext ==
    \/ SyncStorage
    \/ GoDiscover
    \/ GoSaved
    \/ GoDiscoverNews
    \/ SelectNews
    \/ SelectSaved
    \/ OnBack
    \/ HandleGenerate
    \/ KitResolves
    \/ KitRejects
    \/ ImagesResolve
    \/ ImagesFail
    \/ HandleLocalSave
    \/ DeleteFromLibrary

SessionSpec == SessionSpecInit /\ [][SessionNext]_vars

\* the library with an imported file and the detail views of saved projects
LibrarySpecInit == RetryIdle /\ NewsLoaded /\ EmptyLibraryInit /\ ImagesIdle /\ AppIdle

LibraryNext ==
    \/ SyncStorage
    \/ GoDiscover
    \/ GoSaved
    \/ GoDiscoverNews
    \/ ImportIntoLibrary
    \/ SelectSaved
    \/ OnBack
    \/ HandleGenerate
    \/ KitResolves
    \/ KitRejects
    \/ ImagesResolve
    \/ ImagesFail
    \/ HandleLocalSave
    \/ DeleteFromLibrary

LibrarySpec == LibrarySpecInit /\ [][LibraryNext]_vars

(***************************************************************************)
(* Properties of retryOperation                                            *)
(***************************************************************************)
\* The rate-limit signal as the specification words it: '429' or
\* 'Too Many Requests' in the message, status 429, response.status 429.
RateLimitSignal(e) ==
    \/ /\ e.message # <<>>
       /\ \E k \in 1..Len(e.message[1]) : e.message[1][k] = "429"
    \/ /\ e.message # <<>>
       /\ \E k \in 1..(Len(e.message[1]) - 2) :
            /\ e.message[1][k] = "Too"
            /\ e.message[1][k + 1] = "Many"
            /\ e.message[1][k + 2] = "Requests"
    \/ e.status = 429
    \/ e.responseStatus = 429

RateLimited(attempt) == attempt.kind = "err" /\ RateLimitSignal(attempt.err)
AllRateLimited(log) == \A k \in 1..Len(log) : RateLimited(log[k])
Settled == rpc \in {"returned", "thrown"}

\* C3 as stated: when every one of the `retries` attempts failed with a
\* rate-limit error, the wrapper fails with the generic "Max retries
\* exceeded" error.
C3_ExhaustionIsGeneric ==
    (Len(attempts) = retries /\ AllRateLimited(attempts) /\ rpc = "thrown")
        => outcome = Failed(MaxRetriesError)

\* C3 amended: when every one of the `retries` (at least 1) attempts failed
\* with a rate-limit error, the wrapper fails, right at the last attempt, with
\* that attempt's own error; it fails with "Max retries exceeded" only when
\* `retries` is 0 and the operation was never invoked.
C3_ExhaustionRethrowsLast ==
    /\ (retries >= 1 /\ Len(attempts) = retries /\ AllRateLimited(attempts))
         => (rpc = "thrown" /\ outcome = attempts[retries] /\ calls = retries)
    /\ (rpc = "thrown" /\ outcome = Failed(MaxRetriesError))
         => (retries = 0 /\ calls = 0)

C3_Witness ==
    /\ retries = DefaultRetries
    /\ Len(attempts) = retries
    /\ AllRateLimited(attempts)
    /\ rpc = "thrown"

\* C4: an attempt that fails with an error carrying no rate-limit signal ends
\* the wrapper with that same error: the operation is not invoked again and
\* no delay is added, whichever attempt it was.
C4_OtherErrorPropagates ==
    LET n == Len(attempts) IN
    (n >= 1 /\ attempts[n].kind = "err" /\ ~RateLimitSignal(attempts[n].err))
        => /\ rpc = "thrown"
           /\ outcome = attempts[n]
           /\ calls = n
           /\ Len(waits) = n - 1

C4_Witness ==
    /\ Len(attempts) = 2
    /\ attempts[2].kind = "err"
    /\ ~RateLimitSignal(attempts[2].err)
    /\ rpc = "thrown"

\* C5: after k rate-limited failures with k < retries the wrapper goes on to
\* attempt k+1, and when that attempt succeeds the wrapper has returned its
\* result and invoked the operation exactly k+1 times.
C5_SucceedsAfterRateLimits ==
    LET n == Len(attempts) IN
    /\ (n >= 1 /\ attempts[n].kind = "ok")
         => /\ AllRateLimited(SubSeq(attempts, 1, n - 1))
            /\ n <= retries
            /\ rpc = "returned"
            /\ outcome = attempts[n]
            /\ calls = n
    /\ (n < retries /\ AllRateLimited(attempts))
         => /\ rpc \in {"loop", "await", "wait"}
            /\ calls \in {n, n + 1}

C5_Witness ==
    /\ retries = DefaultRetries
    /\ Len(attempts) = DefaultRetries
    /\ attempts[DefaultRetries].kind = "ok"
    /\ rpc = "returned"
    /\ calls = DefaultRetries

\* C6: the operation is invoked at most `retries` times, and the wrapper
\* settles (returns or throws) when every invocation settles and every timer
\* fires.
C6_BoundedAndTerminates == [](calls <= retries) /\ <>Settled

C6_Witness ==
    /\ retries = DefaultRetries
    /\ calls = retries
    /\ rpc = "thrown"
    /\ Len(waits) = retries - 1

\* C7: the wait after the rate-limited failure of the attempt with index k-1
\* lies in [baseDelay * 2^(k-1), baseDelay * 2^(k-1) + 1000); with the
\* defaults the waits lie in [2000, 3000) and [4000, 5000), each longer than
\* the one before.
C7_BackoffDelays ==
    /\ \A k \in 1..Len(waits) :
        /\ RateLimited(attempts[k])
        /\ k < retries
        /\ waits[k] >= baseDelay * 2^(k - 1)
        /\ waits[k] < baseDelay * 2^(k - 1) + 1000
    /\ rpc = "wait" => Len(waits) = i + 1
    /\ (retries = 3 /\ baseDelay = 2000)
         => /\ Len(waits) <= 2
            /\ Len(waits) >= 1 => (waits[1] >= 2000 /\ waits[1] < 3000)
            /\ Len(waits) >= 2 =>
                 (waits[2] >= 4000 /\ waits[2] < 5000 /\ waits[2] > waits[1])

C7_Witness ==
    /\ retries = 3
    /\ baseDelay = 2000
    /\ Len(waits) = 2
    /\ rpc = "wait"

(***************************************************************************)
(* Properties of the news list                                             *)
(***************************************************************************)
TitlesOf(list) == {list[k].title : k \in 1..Len(list)}

\* the entries of a batch whose title is not in the list, in batch order
Unseen(batch, list) ==
    SelectSeq(batch, LAMBDA item : item.title \notin TitlesOf(list))

\* a step in which a fetch resolved with a batch
FetchResolvedStep ==
    /\ fetchPc = "await"
    /\ fetchPc' = "idle"
    /\ lastFetch'.kind = "ok"

\* C1: the news list never holds two entries with the same title.
C1_NoDuplicateTitles ==
    \A a, b \in 1..Len(news) : news[a].title = news[b].title => a = b

\* C8 as stated: a fetch yields the previous list with the previously-unseen
\* entries of the batch appended to it.
C8_UnseenAppended ==
    [][FetchResolvedStep => news' = news \o Unseen(lastFetch'.batch, news)]_vars

\* C8 amended: a fetch yields the previously-unseen entries of the batch, in
\* batch order, placed in front of the previous list; entries whose title is
\* already in the previous list are not added and the previous entries are
\* kept unchanged.
C8_UnseenPrepended ==
    [][FetchResolvedStep => news' = Unseen(lastFetch'.batch, news) \o news]_vars

\* a second fetch whose batch holds a title of the list and a new one
C8_Witness ==
    /\ lastFetch.kind = "ok"
    /\ lastFetch.added >= 1
    /\ lastFetch.added < Len(lastFetch.batch)
    /\ Len(news) > lastFetch.added
    /\ lastFetch.batch[1].title # lastFetch.batch[2].title

(***************************************************************************)
(* Properties of the saved projects                                        *)
(***************************************************************************)
\* a step in which reader.onload ran (the handlers run with no sync pending,
\* and each records itself in lastOp)
ImportStep == ~syncPending /\ lastOp'.op = "import"

\* the file of that step holds a JSON array
ImportedArray == JSONParse(lastOp'.text).ok /\ JSONParse(lastOp'.text).type = "array"

\* C2: no two saved projects have the same id.
C2_UniqueProjectIds ==
    \A a, b \in 1..Len(savedProjects) :
        savedProjects[a].id = savedProjects[b].id => a = b

\* C9: importing an array adds exactly the imported projects whose id is not
\* in the collection, in file order, in front of the collection, which is
\* kept unchanged.
C9_ImportAddsNewIds ==
    [][(ImportStep /\ ImportedArray) =>
        LET json == JSONParse(lastOp'.text).elems
            present == {savedProjects[k].id : k \in 1..Len(savedProjects)}
            k == Len(savedProjects') - Len(savedProjects)
        IN /\ k >= 0
           /\ SubSeq(savedProjects', k + 1, Len(savedProjects')) = savedProjects
           /\ \A m \in 1..k : savedProjects'[m].id \notin present
           /\ SubSeq(savedProjects', 1, k)
                = SelectSeq(json, LAMBDA j : j.id \notin present)]_vars

\* an import of one new and one already-present id
C9_Witness ==
    /\ lastOp.op = "import"
    /\ JSONParse(lastOp.text).type = "array"
    /\ Len(JSONParse(lastOp.text).elems) = 2
    /\ lastOp.added = 1
    /\ Len(savedProjects) >= 2

\* C10: importing a file that holds no JSON array (another JSON value, or a
\* text that does not parse) changes neither the collection nor the storage,
\* and schedules no write of it.
C10_NonArrayRejected ==
    [][(ImportStep /\ ~ImportedArray) =>
        /\ savedProjects' = savedProjects
        /\ storage' = storage
        /\ syncPending' = FALSE]_vars

\* a JSON object was imported into a collection that holds projects
C10_Witness ==
    /\ lastOp.op = "import"
    /\ JSONParse(lastOp.text).ok
    /\ JSONParse(lastOp.text).type = "object"
    /\ savedProjects # <<>>
    /\ storage = <<JSONStringify(savedProjects)>>
    /\ ~syncPending

\* a step in which the page was loaded again
ReloadStep == ~syncPending /\ lastOp'.op = "reload"

\* a step in which handleProjectSave ran
SaveStep == ~syncPending /\ lastOp'.op = "save"

\* a step in which deleteProject ran
DeleteStep == ~syncPending /\ lastOp'.op = "delete"

IdSet(list) == {list[k].id : k \in 1..Len(list)}

\* C11: loading the page again yields a collection with the same set of
\* project ids as before.
C11_ReloadKeepsIds ==
    [][ReloadStep => IdSet(savedProjects') = IdSet(savedProjects)]_vars

\* a reload of a collection that saves or imports have grown
C11_Witness ==
    /\ lastOp.op = "reload"
    /\ Len(savedProjects) >= 3

\* C12: whenever no sync is pending the stored text is the serialization of
\* the whole collection; every change of the collection schedules the sync,
\* and every write of the key writes the whole current collection.
C12_StorageHoldsWholeList ==
    /\ [](~syncPending =>
            /\ storage # <<>>
            /\ JSONParse(storage[1]).ok
            /\ JSONParse(storage[1]).type = "array"
            /\ JSONParse(storage[1]).elems = savedProjects)
    /\ [][/\ (savedProjects' # savedProjects => syncPending')
          /\ (storage' # storage =>
                /\ JSONParse(storage'[1]).elems = savedProjects
                /\ savedProjects' = savedProjects)]_vars

\* the sync ran after a confirmed delete that left projects
C12_Witness ==
    /\ ~syncPending
    /\ lastOp.op = "delete"
    /\ lastOp.confirmed
    /\ Len(savedProjects) >= 2
    /\ storage = <<JSONStringify(savedProjects)>>

\* C13: saving a project whose id is in the collection replaces one entry
\* with that id, at its position, and changes neither the length nor any
\* other entry; saving a project with a new id adds that one entry and
\* changes no existing entry.
C13_SaveInPlace ==
    [][SaveStep =>
        LET p == lastOp'.project IN
        IF p.id \in IdSet(savedProjects)
        THEN /\ Len(savedProjects') = Len(savedProjects)
             /\ \E k \in 1..Len(savedProjects) :
                    /\ savedProjects[k].id = p.id
                    /\ savedProjects'[k] = p
                    /\ \A m \in 1..Len(savedProjects) :
                           m # k => savedProjects'[m] = savedProjects[m]
        ELSE /\ Len(savedProjects') = Len(savedProjects) + 1
             /\ \E k \in 1..Len(savedProjects') :
                    /\ savedProjects'[k] = p
                    /\ SubSeq(savedProjects', 1, k - 1)
                         \o SubSeq(savedProjects', k + 1, Len(savedProjects'))
                         = savedProjects]_vars

\* a project that is not the first of the list was updated
C13_Witness ==
    /\ lastOp.op = "save"
    /\ lastOp.added = 0
    /\ Len(savedProjects) >= 2
    /\ savedProjects[2] = lastOp.project
    /\ syncPending

\* C14: a confirmed delete removes every entry with the id and keeps the
\* other entries in order; a declined one changes nothing.
C14_DeleteById ==
    [][DeleteStep =>
        LET id == lastOp'.project.id IN
        IF lastOp'.confirmed
        THEN /\ id \notin IdSet(savedProjects')
             /\ savedProjects' = SelectSeq(savedProjects, LAMBDA q : q.id # id)
        ELSE savedProjects' = savedProjects /\ syncPending' = syncPending]_vars

\* a confirmed delete removed two entries with the same id and left others
C14_Witness ==
    /\ lastOp.op = "delete"
    /\ lastOp.confirmed
    /\ lastOp.added = -2
    /\ savedProjects # <<>>

(***************************************************************************)
(* Properties of searchRelatedImages                                       *)
(***************************************************************************)
\* the urls of the accepted chunks of the response, in response order
AcceptedUrls ==
    IF chunks = <<>> THEN <<>>
    ELSE LET accepted == SelectSeq(chunks[1], Accepted)
         IN [k \in 1..Len(accepted) |-> accepted[k].uri]

\* the position in the response of the first accepted chunk with the url
FirstChunkWith(url) ==
    CHOOSE k \in 1..Len(chunks[1]) :
        /\ Accepted(chunks[1][k])
        /\ chunks[1][k].uri = url
        /\ \A m \in 1..(k - 1) :
               ~(Accepted(chunks[1][m]) /\ chunks[1][m].uri = url)

\* C18: the returned list has no two entries with the same url and at most
\* 10 entries; every entry is built from the first accepted chunk with its
\* url, the entries are in response order, and they are the first (up to 10)
\* distinct urls of the response.
C18_DedupedAndCapped ==
    spc = "returned" =>
        /\ Len(images) <= 10
        /\ \A k, m \in 1..Len(images) : images[k].url = images[m].url => k = m
        /\ \A k \in 1..Len(images) :
               /\ \E c \in 1..Len(AcceptedUrls) : AcceptedUrls[c] = images[k].url
               /\ images[k] = ImageOf(chunks[1][FirstChunkWith(images[k].url)])
        /\ \A k, m \in 1..Len(images) :
               k < m => FirstChunkWith(images[k].url) < FirstChunkWith(images[m].url)
        /\ ~searchFailed =>
               LET distinct == {AcceptedUrls[c] : c \in 1..Len(AcceptedUrls)}
               IN /\ Len(images) = IF Cardinality(distinct) < 10
                                   THEN Cardinality(distinct) ELSE 10
                  /\ \A u \in distinct :
                         (\A k \in 1..Len(images) : images[k].url # u)
                           => \A k \in 1..Len(images) :
                                  FirstChunkWith(images[k].url) < FirstChunkWith(u)

\* a response with more than 10 distinct urls, one of them repeated with a
\* different title, was cut to 10
C18_Witness ==
    /\ spc = "returned"
    /\ Len(images) = 10
    /\ Len(AcceptedUrls) >= 13
    /\ \E k, m \in 1..Len(chunks[1]) :
           /\ k < m
           /\ Accepted(chunks[1][k])
           /\ Accepted(chunks[1][m])
           /\ chunks[1][k].uri = chunks[1][m].uri
           /\ chunks[1][k].title # chunks[1][m].title
           /\ images[1].url = chunks[1][k].uri

(***************************************************************************)
(* Properties of the App and its DetailView                                *)
(***************************************************************************)
\* the last operation on the collection was an onSave of handleGenerate
SavedByGenerate == lastOp.op = "save" /\ lastOp.caller.via = "handleGenerate"

\* how many of the jobs await their image search
AwaitingImages(jobs) ==
    BagCardinality([j \in {x \in BagToSet(jobs) : x.stage = "images"} |->
                       CopiesIn(j, jobs)])

\* a job that awaited its image search has returned in this step
GenerationReturned == AwaitingImages(gens') < AwaitingImages(gens)

\* the entries of the second list that are not entries of the first
Entered(before, after) ==
    {after[k] : k \in 1..Len(after)} \ {before[k] : k \in 1..Len(before)}

\* C15 as stated: a project is added or updated only by handleLocalSave or
\* by an import, never by the completion of a generation.
C15_OnlyExplicitSave ==
    [][Entered(savedProjects, savedProjects') # {} =>
          \/ lastOp'.op = "import"
          \/ lastOp'.op = "save" /\ lastOp'.caller.via = "handleLocalSave"]_vars

\* C15: the collection changes only by a save of handleLocalSave (pressed
\* while the view holds content), by the save handleGenerate makes when a
\* generation completes, by an import or by a confirmed delete; every
\* completed generation saves its project, without Save being pressed.
C15_SavedByUserOrGeneration ==
    [][/\ savedProjects' # savedProjects =>
            \/ /\ lastOp'.op = "save"
               /\ lastOp'.caller.via \in {"handleLocalSave", "handleGenerate"}
               /\ lastOp'.project.body.generatedContent # Null
               /\ savedProjects' = SaveProject(savedProjects, lastOp'.project)
               /\ lastOp'.caller.via = "handleLocalSave" =>
                      DetailMounted /\ content = lastOp'.project.body.generatedContent
            \/ lastOp'.op = "import"
            \/ /\ lastOp'.op = "delete"
               /\ lastOp'.confirmed
               /\ Entered(savedProjects, savedProjects') = {}
       /\ GenerationReturned =>
            /\ syncPending'
            /\ lastOp'.op = "save"
            /\ lastOp'.caller.via = "handleGenerate"
            /\ lastOp'.project \in {savedProjects'[k] : k \in 1..Len(savedProjects')}]_vars

\* a generation has completed and added a project; Save was never pressed
C15_Witness ==
    /\ SavedByGenerate
    /\ lastOp.added = 1
    /\ Len(savedProjects) = 1
    /\ syncPending

\* the AI requests that are in flight
InFlight == (IF fetchPc = "await" THEN 1 ELSE 0) + BagCardinality(gens)

\* the generations of the mounted DetailView that are in flight
LiveJobs == BagCardinality([j \in {x \in BagToSet(gens) : x.live} |-> CopiesIn(j, gens)])

\* C16 as stated: never two AI requests in flight.
C16_OneAtATime == InFlight <= 1

\* C16: while a fetch is in flight neither of its buttons can start another
\* (loadingNews is set and errorMsg is null); a mounted DetailView has at
\* most one generation in flight, and has one exactly while it is loading;
\* the image search of a generation starts only after its kit has resolved.
\* A fetch, a generation and the generations of DetailViews that were left
\* are not ordered with each other.
C16_SequentialPerHandler ==
    /\ fetchPc = "await" => (loadingNews /\ errorMsg = NullMsg)
    /\ LiveJobs <= 1
    /\ LiveJobs = 1 <=> (DetailMounted /\ loading)
    /\ \A job \in BagToSet(gens) :
           /\ job.stage \in {"kit", "images"}
           /\ job.stage = "images" <=> job.generated # Null

\* a fetch, the generation of a view that was left and the generation of the
\* mounted view are in flight together
C16_Witness ==
    /\ fetchPc = "await"
    /\ BagCardinality(gens) = 2
    /\ LiveJobs = 1
    /\ \E job \in BagToSet(gens) : ~job.live /\ job.stage = "images"

\* C17 as stated: a failure is shown to the user, and a generation whose
\* image search failed saves no project.
C17_FailuresSurfaced ==
    /\ detailError # NullMsg => "error" \in Rendered
    /\ ~(SavedByGenerate /\ lastOp.caller.imagesFailed)

\* C19 as stated: the saves of a DetailView opened from the Discover list
\* leave one project in the collection.
C19_OneProjectPerSession ==
    (DetailMounted /\ selectedSavedProject = Null) =>
        Cardinality({k \in 1..Len(savedProjects) :
                        savedProjects[k].id \in sessionIds}) <= 1

\* C20 as stated: a generation started for a project that was deleted
\* afterwards does not add a project with its id.
C20_DeleteIsDurable ==
    ~(SavedByGenerate /\ lastOp.caller.deleted /\ lastOp.added = 1)

\* C21: one screen is rendered in every state; DISCOVER has no selected
\* item, SAVED no selected saved project, DETAIL a selected item.  A detail
\* is entered with a selected saved project exactly from the Saved list, it
\* keeps its selection while mounted, and Back leads to SAVED from a detail
\* with a selected saved project and to DISCOVER otherwise, clearing both.
C21_OneScreen ==
    /\ [](/\ Cardinality(Screens) = 1
          /\ view \in {"DISCOVER", "SAVED", "DETAIL"}
          /\ view = "DISCOVER" => selectedItem = Null
          /\ view = "SAVED" => selectedSavedProject = Null
          /\ view = "DETAIL" => selectedItem # Null)
    /\ [][/\ (~DetailMounted /\ DetailMounted') =>
                (selectedSavedProject' # Null <=> view = "SAVED")
          /\ (DetailMounted /\ DetailMounted') =>
                UNCHANGED <<selectedItem, selectedSavedProject>>
          /\ OnBack =>
                /\ view' = IF selectedSavedProject # Null THEN "SAVED" ELSE "DISCOVER"
                /\ selectedItem' = Null
                /\ selectedSavedProject' = Null]_vars

\* a saved project is open in the DetailView, after a detail opened from a
\* news card produced it
C21_Witness ==
    /\ view = "DETAIL"
    /\ selectedSavedProject # Null
    /\ selectedItem = <<selectedSavedProject[1].body.newsItem>>
    /\ Len(savedProjects) >= 2

\* a step in which handleFetchNews was called
FetchStartedStep == fetchPc = "idle" /\ fetchPc' = "await"

\* a step in which the fetch failed
FetchRejectedStep ==
    /\ fetchPc = "await"
    /\ fetchPc' = "idle"
    /\ lastFetch'.kind = "err"

\* C22: the start of handleFetchNews sets loadingNews and clears errorMsg;
\* a failed fetch leaves the news list unchanged and sets one of the two
\* messages; a successful one leaves errorMsg null; both end with
\* loadingNews false, and loadingNews always returns to false.
C22_FetchLifecycle ==
    /\ [][/\ FetchStartedStep => (loadingNews' /\ errorMsg' = NullMsg)
          /\ FetchRejectedStep =>
                /\ news' = news
                /\ errorMsg' \in {BusyMsg, FailedMsg}
                /\ errorMsg' # NullMsg
                /\ ~loadingNews'
          /\ FetchResolvedStep =>
                /\ errorMsg' = NullMsg
                /\ ~loadingNews']_vars
    /\ [](loadingNews <=> fetchPc = "await")
    /\ (loadingNews ~> ~loadingNews)

\* a fetch started from the "Try Again" button of an earlier failure, with
\* news in the list, has failed again
C22_Witness ==
    /\ lastFetch.kind = "err"
    /\ news # <<>>
    /\ errorMsg = FailedMsg
    /\ ~loadingNews
    /\ fetchPc = "idle"

====
